---- MODULE Spec2Model ----
(***************************************************************************)
(* Model of the summary-regeneration API route (handler, generateSummary,  *)
(* generateSummaryRetry) of src/unnamed/part_000.                          *)
(*                                                                         *)
(* Strings.  A generated text (the upstream model's reply, a summary) is a *)
(* sequence of tokens; each token is a literal piece of text and the       *)
(* string it stands for is the concatenation of its tokens.  The markers   *)
(* "SUMMARY:" and "TOPICS:" and the word "failed" occur in a text only as  *)
(* whole tokens, so the regular expression and String.includes act on      *)
(* token boundaries.  A transcript is run-length encoded: a sequence of    *)
(* runs [c, n], n copies of the character c, so that transcripts around    *)
(* the 32000-character limit are small values.                             *)
(***************************************************************************)
EXTENDS Integers, Sequences, FiniteSets, TLC

\* ------------------------------------------------------------------ bounds

\* Longest upstream reply, in tokens.
MaxTextLen == 4
\* Longest transcript, in runs.
MaxRuns == 2
\* Most calls of generateSummaryRetry in a run.
MaxRetryCalls == 2

\* --------------------------------------------------------- program constants

\* const maxTranscriptLength = 32000;
maxTranscriptLength == 32000
\* summary.length < 20
MinSummaryLength == 20

\* --------------------------------------------------------------- JS values

\* A nullable string field: null, undefined or a string (v).
Null == [t |-> "null", v |-> <<>>]
Undefined == [t |-> "undefined", v |-> <<>>]
Str(s) == [t |-> "string", v |-> s]

\* ToBoolean of a nullable string: null, undefined and '' are falsy.
Truthy(x) == x.t = "string" /\ x.v # <<>>

RECURSIVE SumLen(_)
\* String.length of a token text: the sum of its tokens' lengths.
SumLen(s) == IF s = <<>> THEN 0 ELSE Len(Head(s)) + SumLen(Tail(s))

RECURSIVE RunsLen(_)
\* String.length of a run-length encoded text.
RunsLen(s) == IF s = <<>> THEN 0 ELSE Head(s).n + RunsLen(Tail(s))

\* The white space character of the model (matched by \s, removed by trim).
WS == " "

RECURSIVE TrimStart(_)
TrimStart(s) == IF s # <<>> /\ Head(s) = WS THEN TrimStart(Tail(s)) ELSE s

RECURSIVE TrimEnd(_)
TrimEnd(s) ==
  IF s # <<>> /\ s[Len(s)] = WS THEN TrimEnd(SubSeq(s, 1, Len(s) - 1)) ELSE s

\* String.prototype.trim on a token text.
Trim(s) == TrimEnd(TrimStart(s))

\* text.trim().length === 0 on a run-length encoded text.
IsBlank(s) == \A i \in 1..Len(s) : s[i].c = WS

\* String.prototype.includes('failed') on a token text or a literal.
FailedLiterals ==
  { "failed",
    "AI summary generation failed after retry",
    "AI summary generation failed after retry - please regenerate manually." }

IncludesFailed(s) == \E i \in 1..Len(s) : s[i] \in FailedLiterals

RECURSIVE Substring(_, _)
\* text.substring(0, k) on a run-length encoded text.
Substring(s, k) ==
  IF k <= 0 \/ s = <<>> THEN <<>>
  ELSE IF Head(s).n <= k
       THEN <<Head(s)>> \o Substring(Tail(s), k - Head(s).n)
       ELSE <<[c |-> Head(s).c, n |-> k]>>

\* ------------------------------------- /SUMMARY:\s*(.+?)(?=TOPICS:|$)/s

SUMMARY == "SUMMARY:"
TOPICS == "TOPICS:"

\* (?=TOPICS:|$) at position p: the text goes on with TOPICS: or ends there
\* (no m flag: $ is the end of the input only).
Lookahead(s, p) == p > Len(s) \/ s[p] = TOPICS

RECURSIVE LazyEnd(_, _, _)
\* (.+?) from start: at least one character (any one, the s flag), then as few
\* as possible until the lookahead holds.  e is the last position taken so
\* far; the result is the last position of the capture, 0 when there is none.
LazyEnd(s, start, e) ==
  IF e > Len(s) THEN 0
  ELSE IF Lookahead(s, e + 1) THEN e
  ELSE LazyEnd(s, start, e + 1)

RECURSIVE GreedySpaces(_, _)
\* \s* from position p, greedy: the number of white space tokens it takes first.
GreedySpaces(s, p) ==
  IF p <= Len(s) /\ s[p] = WS THEN 1 + GreedySpaces(s, p + 1) ELSE 0

RECURSIVE Backtrack(_, _, _)
\* The rest of the pattern after SUMMARY: at position i, with \s* taking j
\* tokens; on failure \s* gives one back.
Backtrack(s, i, j) ==
  LET start == i + 1 + j
      e == LazyEnd(s, start, start)
  IN IF e # 0 THEN [matched |-> TRUE, group |-> SubSeq(s, start, e)]
     ELSE IF j = 0 THEN [matched |-> FALSE, group |-> <<>>]
     ELSE Backtrack(s, i, j - 1)

RECURSIVE MatchFrom(_, _)
\* The leftmost match at or after position i.
MatchFrom(s, i) ==
  IF i > Len(s) THEN [matched |-> FALSE, group |-> <<>>]
  ELSE IF s[i] = SUMMARY
       THEN LET m == Backtrack(s, i, GreedySpaces(s, i + 1))
            IN IF m.matched THEN m ELSE MatchFrom(s, i + 1)
       ELSE MatchFrom(s, i + 1)

\* generatedText.match(/SUMMARY:\s*(.+?)(?=TOPICS:|$)/s): matched, and group 1.
summaryMatch(generatedText) == MatchFrom(generatedText, 1)

\* ------------------------------------------------------- generateSummary

\* What a call yields: a returned string or a thrown Error with its message.
Return(v) == [threw |-> FALSE, value |-> v, message |-> <<>>]
Throw(m) == [threw |-> TRUE, value |-> <<>>, message |-> m]

\* As InputRejected, the text not trimmed before the test.
InputRejectedUntrimmed(text) == ~Truthy(text)

\* if (!text || text.trim().length === 0) throw ...
InputRejected(text) == ~Truthy(text) \/ IsBlank(text.v)

\* As truncatedText, the substring one character short.
truncatedTextShort(text) ==
  IF RunsLen(text) > maxTranscriptLength
  THEN Substring(text, maxTranscriptLength - 1)
  ELSE text

\* text.length > maxTranscriptLength ? text.substring(0, maxTranscriptLength) : text
truncatedText(text) ==
  IF RunsLen(text) > maxTranscriptLength
  THEN Substring(text, maxTranscriptLength)
  ELSE text

PromptHead == "Analyze this transcript:\n\n\""
PromptTail == "\"\n\nProvide:\n1. SUMMARY: A 2-3 sentence summary.\n2. TOPICS: 3-5 main topics, comma-separated.\n3. INSIGHTS: 1-2 key insights.\n\nFormat your response exactly like this:\nSUMMARY: [Your summary]\nTOPICS: [topic1, topic2]\nINSIGHTS: [Your insights]"

\* The template literal: the fixed head, the transcript text, the fixed tail.
summaryPrompt(text) == [head |-> PromptHead, text |-> text, tail |-> PromptTail]

\* response.ok
ResponseOk(status) == status \in 200..299

\* As StatusError, the 403 branch missing.
StatusErrorNo403(status, errorText) ==
  IF status = 401
  THEN <<"Invalid API key - please check GEMINI_API_KEY configuration">>
  ELSE IF status = 429
  THEN <<"API rate limit exceeded - please try again later">>
  ELSE <<"Gemini API error: ", ToString(status), " - ", errorText>>

\* The Error thrown for a non-success status, by status.
StatusError(status, errorText) ==
  IF status = 401
  THEN <<"Invalid API key - please check GEMINI_API_KEY configuration">>
  ELSE IF status = 403
  THEN <<"API access forbidden - please check API key permissions">>
  ELSE IF status = 429
  THEN <<"API rate limit exceeded - please try again later">>
  ELSE <<"Gemini API error: ", ToString(status), " - ", errorText>>

\* let summary = "AI-generated summary not available";
Placeholder == "AI-generated summary not available"

\* As ExtractedSummary, the trim() forgotten.
ExtractedSummaryUntrimmed(generatedText) ==
  LET m == summaryMatch(generatedText)
  IN IF m.matched THEN m.group ELSE <<Placeholder>>

\* The summary after the match: group 1 trimmed, or the initial value kept.
ExtractedSummary(generatedText) ==
  LET m == summaryMatch(generatedText)
  IN IF m.matched THEN Trim(m.group) ELSE <<Placeholder>>

\* As SummaryInvalid, the comparison off by one.
SummaryInvalidOffByOne(summary) == summary = <<>> \/ SumLen(summary) <= MinSummaryLength

\* if (!summary || summary.length < 20)
SummaryInvalid(summary) == summary = <<>> \/ SumLen(summary) < MinSummaryLength

\* From the generated text of the reply to the end of generateSummary.
ParseGenerated(generatedText) ==
  IF generatedText = <<>>
  THEN Throw(<<"Empty response from AI service">>)
  ELSE LET summary == ExtractedSummary(generatedText)
       IN IF SummaryInvalid(summary)
          THEN Throw(<<"Generated summary is too short or invalid">>)
          ELSE Return(summary)

\* The body of an upstream reply: JSON carrying a generated text (the empty
\* text when candidates[0].content.parts[0].text is absent), or no JSON.
JsonBody(t) == [json |-> TRUE, text |-> t]
NotJson == [json |-> FALSE, text |-> <<>>]

\* generateSummary after fetch resolved with `status` and the body was read.
GenerateAfterBody(status, body) ==
  IF ~ResponseOk(status) THEN Throw(StatusError(status, "errorText"))
  ELSE IF ~body.json THEN Throw(<<"SyntaxError: Unexpected token">>)
  ELSE ParseGenerated(body.text)

\* ------------------------------------------------------------ the inputs

\* The tokens of an upstream reply: the two markers, white space, a word of
\* 19 characters, a word of 20 characters and the word "failed".
Word19 == "bbbbbbbbbbbbbbbbbbb"
Word20 == "cccccccccccccccccccc"
Alphabet == {SUMMARY, TOPICS, WS, Word19, Word20, "failed"}

\* Every reply of at most MaxTextLen tokens.
Texts == UNION {[1..n -> Alphabet] : n \in 0..MaxTextLen}

\* The bodies an upstream reply can carry.
Bodies == {NotJson} \cup {JsonBody(t) : t \in Texts}

\* A few of them: no JSON, no text, a reply without marker, a valid reply.
FewBodies ==
  { NotJson, JsonBody(<<>>), JsonBody(<<Word19>>),
    JsonBody(<<SUMMARY, WS, Word20, TOPICS>>) }

\* One body for each way generateSummary and the handler can go on: those,
\* a summary too short, one containing 'failed', and a second valid reply.
PathBodies ==
  FewBodies \cup
    { JsonBody(<<SUMMARY, Word19>>), JsonBody(<<SUMMARY, Word20, "failed">>),
      JsonBody(<<SUMMARY, Word20, Word19>>) }

\* The HTTP statuses of the upstream reply.
Statuses == {200, 201, 401, 403, 429, 500}

\* The run lengths of a transcript: short, and around the truncation limit.
RunLengths == {1, maxTranscriptLength - 1, maxTranscriptLength}
Runs == [c : {"a", WS}, n : RunLengths]

\* Run-length encoded texts of at most k runs, neighbouring runs of different
\* characters.
RunTexts(k) ==
  { t \in UNION {[1..n -> Runs] : n \in 0..k} :
      \A i \in 1..(Len(t) - 1) : t[i].c # t[i + 1].c }

\* The transcript field of a file: absent, empty, blank, or text.
BasicTranscripts ==
  { Null, Undefined, Str(<<>>), Str(<<[c |-> WS, n |-> 1]>>),
    Str(<<[c |-> "a", n |-> 1]>>) }
LongTranscripts == {Str(t) : t \in RunTexts(MaxRuns)}

\* The topic field of a file.
Topics == {Null, Str(<<>>), Str(<<"Meeting">>)}

\* process.env.GEMINI_API_KEY
ApiKeys == {Undefined, Str(<<"key">>)}

\* usersDB: the users of the store.
Users == {[id |-> "u1", email |-> "e1"], [id |-> "u2", email |-> "e2"]}

\* The tokens a request can carry: none, one that does not verify, one of
\* user u1, one of an email with no user, and one verifyToken throws on.
Tokens == {"none", "expired", "tok-e1", "tok-e3", "malformed"}

\* The ids of the files of the store, and the ids a request can name.
FileIds == {"f1", "f2"}
RequestFileIds == FileIds \cup {"f9"}

\* req.body: undefined, or an object whose fileId is absent ("") or an id.
RequestBodies ==
  {[defined |-> FALSE, fileId |-> ""]}
    \cup {[defined |-> TRUE, fileId |-> f] : f \in RequestFileIds \cup {""}}

\* A collaborator that throws during the request, if any.
Faults == {"none", "getTokenFromRequest", "findByEmail", "findById"}

Requests ==
  [method : {"POST", "GET"}, token : Tokens, body : RequestBodies, fault : Faults]

\* What filesDB.update does: returns the updated record, returns null, throws.
UpdateOutcomes == {"updated", "null", "throws"}

\* The requests of a run.
ReqIds == {"r1", "r2"}
\* ------------------------------------------------------------- the state

VARIABLES
  reqs,            \* the requests that arrive in this run
  GEMINI_API_KEY,  \* process.env.GEMINI_API_KEY
  files,           \* filesDB: file id -> record
  pc,              \* per request: "new", "awaitFetch", "awaitBody", "done"
  req,             \* per request: the request as received
  file,            \* per request: the handler's local `file`
  response,        \* per request: the upstream reply as far as received
  gs,              \* per request: the outcome of generateSummary
  resp,            \* per request: the responses sent (res.status().json())
  outbound,        \* the fetch calls made, in order
  dbWrites,        \* the filesDB.update calls made, in order
  rpc,             \* generateSummaryRetry: "idle", "new", "awaitFetch", "awaitBody", "done"
  rtext,           \* generateSummaryRetry: the argument
  rresponse,       \* generateSummaryRetry: the upstream reply as far as received
  rresult,         \* generateSummaryRetry: what the call yielded
  rcalls,          \* generateSummaryRetry: the calls made so far
  rfailures        \* generateSummaryRetry: the strings returned by failed calls

handlerVars == <<reqs, GEMINI_API_KEY, files, pc, req, file, response, gs, resp, dbWrites>>
retryVars == <<rpc, rtext, rresponse, rresult, rcalls, rfailures>>
vars == <<reqs, GEMINI_API_KEY, files, pc, req, file, response, gs, resp,
          outbound, dbWrites, rpc, rtext, rresponse, rresult, rcalls, rfailures>>

NoRequest == [method |-> "", token |-> "none", body |-> [defined |-> FALSE, fileId |-> ""], fault |-> "none"]
NoFile == [id |-> "", userId |-> "", transcript |-> Null, summary |-> Null, topic |-> Null]
NoResponse == [state |-> "none", status |-> 0, body |-> NotJson]
NotCalled == [state |-> "none", value |-> <<>>, message |-> <<>>]
Pending == [state |-> "pending", value |-> <<>>, message |-> <<>>]

\* The outcome of a call as recorded in gs / rresult.
Outcome(result) ==
  [state |-> IF result.threw THEN "threw" ELSE "returned",
   value |-> result.value, message |-> result.message]

\* ------------------------------------------------------ the collaborators

\* getTokenFromRequest(req): the token, or null ("none").
getTokenFromRequest(request) == request.token

\* verifyToken(token): the decoded email, null (""), or an exception.
verifyToken(token) ==
  IF token = "malformed" THEN [threw |-> TRUE, email |-> ""]
  ELSE IF token = "tok-e1" THEN [threw |-> FALSE, email |-> "e1"]
  ELSE IF token = "tok-e3" THEN [threw |-> FALSE, email |-> "e3"]
  ELSE [threw |-> FALSE, email |-> ""]

\* usersDB.findByEmail(email): the user's id, or null ("").
findByEmail(email) ==
  IF \E u \in Users : u.email = email
  THEN (CHOOSE u \in Users : u.email = email).id
  ELSE ""

\* filesDB.findById(id): whether a record exists.
FileExists(db, id) == id \in DOMAIN db

\* filesDB.update(id, patch) when it succeeds: the record with the patch's
\* fields replaced.
update(db, id, patch) ==
  [db EXCEPT ![id] = [@ EXCEPT !.summary = patch.summary, !.topic = patch.topic]]

\* ------------------------------------------------------------ the handler

\* The JSON bodies of the handler's responses; keys are the fields present.
ErrorBody(msg) ==
  [keys |-> {"error"}, error |-> msg, details |-> <<>>,
   success |-> FALSE, message |-> "", summary |-> <<>>]
ErrorDetailsBody(msg, details) ==
  [keys |-> {"error", "details"}, error |-> msg, details |-> details,
   success |-> FALSE, message |-> "", summary |-> <<>>]
SuccessBody(summary) ==
  [keys |-> {"success", "message", "summary"}, error |-> "", details |-> <<>>,
   success |-> TRUE, message |-> "Summary regenerated successfully",
   summary |-> summary]

Reply(status, body) == [kind |-> "respond", status |-> status, body |-> body, file |-> NoFile]
Proceed(f) == [kind |-> "generate", status |-> 0, body |-> ErrorBody(""), file |-> f]

\* req.method !== 'POST'
MethodRejected(request) == request.method # "POST"

\* As InternalError, answering like the inner catch, with details.
InternalErrorWithDetails ==
  Reply(500, ErrorDetailsBody("Failed to regenerate summary", <<"error.message">>))

\* The outer catch: any exception of the checks.
InternalError == Reply(500, ErrorBody("Internal server error"))

\* As NotOwner, the ownership check left out.
NotOwnerUnchecked(f, userId) == FALSE

\* file.userId !== userId
NotOwner(f, userId) == f.userId # userId

\* As NoTranscript, testing for null only.
NoTranscriptNullOnly(f) == f.transcript.t = "null"

\* !file.transcript
NoTranscript(f) == ~Truthy(f.transcript)

\* !process.env.GEMINI_API_KEY
NoApiKey(key) == ~Truthy(key)

\* As FileChecks, the transcript tested before the owner.
FileChecksTranscriptFirst(f, userId, key) ==
  IF NoTranscript(f)
  THEN Reply(400, ErrorBody("File has no transcript to summarize"))
  ELSE IF NotOwner(f, userId)
  THEN Reply(403, ErrorBody("Not authorized to update this file"))
  ELSE IF NoApiKey(key)
  THEN Reply(500, ErrorBody("AI service not configured. Please set up GEMINI_API_KEY."))
  ELSE Proceed(f)

\* The checks on the file, once found.
FileChecks(f, userId, key) ==
  IF NotOwner(f, userId)
  THEN Reply(403, ErrorBody("Not authorized to update this file"))
  ELSE IF NoTranscript(f)
  THEN Reply(400, ErrorBody("File has no transcript to summarize"))
  ELSE IF NoApiKey(key)
  THEN Reply(500, ErrorBody("AI service not configured. Please set up GEMINI_API_KEY."))
  ELSE Proceed(f)

\* From `const { fileId } = req.body` to the file checks.
BodyChecks(request, db, userId, key) ==
  IF ~request.body.defined THEN InternalError
  ELSE IF request.body.fileId = ""
  THEN Reply(400, ErrorBody("File ID is required"))
  ELSE IF request.fault = "findById" THEN InternalError
  ELSE IF ~FileExists(db, request.body.fileId)
  THEN Reply(404, ErrorBody("File not found"))
  ELSE FileChecks(db[request.body.fileId], userId, key)

\* The try block up to the user lookup.
AuthChecks(request, db, key) ==
  IF request.fault = "getTokenFromRequest" THEN InternalError
  ELSE LET decoded == verifyToken(getTokenFromRequest(request))
       IN IF decoded.threw THEN InternalError
          ELSE IF decoded.email = ""
          THEN Reply(401, ErrorBody("Unauthorized"))
          ELSE IF request.fault = "findByEmail" THEN InternalError
          ELSE IF findByEmail(decoded.email) = ""
          THEN Reply(401, ErrorBody("User not found"))
          ELSE BodyChecks(request, db, findByEmail(decoded.email), key)

\* The handler from its entry to the call of generateSummary: the response of
\* the first check that fails, or the file to summarize.
HandlerChecks(request, db, key) ==
  IF MethodRejected(request)
  THEN Reply(405, ErrorBody("Method not allowed"))
  ELSE AuthChecks(request, db, key)
\* As Respond, the return missing: a second response is sent further down.
RespondTwice(r, status, body) ==
  /\ resp' = [resp EXCEPT ![r] = @ \o << [status |-> status, body |-> body],
                                         [status |-> 500, body |-> ErrorBody("Internal server error")] >>]
  /\ pc' = [pc EXCEPT ![r] = "done"]

\* res.status(status).json(body) and the return that follows it.
Respond(r, status, body) ==
  /\ resp' = [resp EXCEPT ![r] = Append(@, [status |-> status, body |-> body])]
  /\ pc' = [pc EXCEPT ![r] = "done"]

\* As UpdatePatch, the summary taken from the file read, not the new one.
UpdatePatchStaleSummary(f, newSummary) ==
  [summary |-> f.summary,
   topic |-> IF Truthy(f.topic) THEN f.topic ELSE Str(<<"General">>)]

\* As UpdatePatch, the topic always set to 'General'.
UpdatePatchGeneralTopic(f, newSummary) ==
  [summary |-> Str(newSummary), topic |-> Str(<<"General">>)]

\* The patch of the update: the new summary, the file's topic or 'General'.
UpdatePatch(f, newSummary) ==
  [summary |-> Str(newSummary),
   topic |-> IF Truthy(f.topic) THEN f.topic ELSE Str(<<"General">>)]

\* As SummaryRefused, the test for 'failed' left out.
SummaryRefusedEmptyOnly(newSummary) == newSummary = <<>>

\* !newSummary || newSummary.includes('failed')
SummaryRefused(newSummary) == newSummary = <<>> \/ IncludesFailed(newSummary)

\* As UpdateReturnedFalsy, the result of the update not tested.
UpdateResultIgnored(upd) == FALSE

\* !updatedFile
UpdateReturnedFalsy(upd) == upd = "null"

\* The inner try block after generateSummary settled with `result`, and its
\* catch; upd is what filesDB.update does if it is called.
HandlerFinish(r, result, upd) ==
  /\ gs' = [gs EXCEPT ![r] = Outcome(result)]
  /\ IF result.threw
     THEN /\ Respond(r, 500, ErrorDetailsBody("Failed to regenerate summary", result.message))
          /\ UNCHANGED <<files, dbWrites>>
     ELSE IF SummaryRefused(result.value)
     THEN /\ Respond(r, 500, ErrorBody("AI summary generation failed. Please try again."))
          /\ UNCHANGED <<files, dbWrites>>
     ELSE LET patch == UpdatePatch(file[r], result.value)
          IN /\ dbWrites' = Append(dbWrites,
                  [req |-> r, id |-> file[r].id, patch |-> patch, outcome |-> upd])
             /\ IF upd = "throws"
                THEN /\ Respond(r, 500, ErrorDetailsBody("Failed to regenerate summary", <<"update failed">>))
                     /\ UNCHANGED files
                ELSE /\ files' = IF upd = "updated"
                                 THEN update(files, file[r].id, patch)
                                 ELSE files
                     /\ IF UpdateReturnedFalsy(upd)
                        THEN Respond(r, 500, ErrorBody("Failed to save updated summary"))
                        ELSE Respond(r, 200, SuccessBody(result.value))

\* As FetchCalls, generateSummaryRetry called on the text as well.
FetchCallsWithRetry(r, text) ==
  << [req |-> r, fn |-> "generateSummary",
      prompt |-> summaryPrompt(truncatedText(text))],
     [req |-> r, fn |-> "generateSummaryRetry", prompt |-> summaryPrompt(text)] >>

\* The fetch calls the handler makes for a transcript that passed the
\* validation: the one of generateSummary.
FetchCalls(r, text) ==
  << [req |-> r, fn |-> "generateSummary",
      prompt |-> summaryPrompt(truncatedText(text))] >>

\* A request arrives: the handler runs to its first response or, when every
\* check passes, into generateSummary up to `await fetch(...)`.
HandlerStart(r) ==
  /\ r \in reqs
  /\ pc[r] = "new"
  /\ \E request \in Requests :
       LET out == HandlerChecks(request, files, GEMINI_API_KEY)
       IN /\ req' = [req EXCEPT ![r] = request]
          /\ IF out.kind = "respond"
             THEN /\ Respond(r, out.status, out.body)
                  /\ UNCHANGED <<file, gs, outbound, files, dbWrites>>
             ELSE /\ file' = [file EXCEPT ![r] = out.file]
                  /\ IF InputRejected(out.file.transcript)
                     THEN /\ gs' = [gs EXCEPT ![r] = Outcome(Throw(<<"No transcript text provided">>))]
                          /\ Respond(r, 500, ErrorDetailsBody("Failed to regenerate summary",
                                                              <<"No transcript text provided">>))
                          /\ UNCHANGED <<outbound, files, dbWrites>>
                     ELSE /\ gs' = [gs EXCEPT ![r] = Pending]
                          /\ outbound' = outbound \o FetchCalls(r, out.file.transcript.v)
                          /\ pc' = [pc EXCEPT ![r] = "awaitFetch"]
                          /\ UNCHANGED <<resp, files, dbWrites>>
  /\ UNCHANGED <<reqs, GEMINI_API_KEY, response, retryVars>>

\* `await fetch(...)` settles: the call fails (generateSummary rethrows, the
\* handler's inner catch answers), or a reply with a status arrives.
FetchResolve(r) ==
  /\ r \in reqs
  /\ pc[r] = "awaitFetch"
  /\ \/ /\ response' = [response EXCEPT ![r] = [@ EXCEPT !.state = "failed"]]
        /\ \E upd \in UpdateOutcomes : HandlerFinish(r, Throw(<<"fetch failed">>), upd)
     \/ \E status \in Statuses :
          /\ response' = [response EXCEPT ![r] = [@ EXCEPT !.state = "headers", !.status = status]]
          /\ pc' = [pc EXCEPT ![r] = "awaitBody"]
          /\ UNCHANGED <<gs, resp, files, dbWrites>>
  /\ UNCHANGED <<reqs, GEMINI_API_KEY, req, file, outbound, retryVars>>

\* `await response.text()` / `await response.json()` settles: the rest of
\* generateSummary and of the handler run.
BodyResolve(r, bodies) ==
  /\ r \in reqs
  /\ pc[r] = "awaitBody"
  /\ \E body \in bodies, upd \in UpdateOutcomes :
       /\ response' = [response EXCEPT ![r] = [@ EXCEPT !.state = "body", !.body = body]]
       /\ HandlerFinish(r, GenerateAfterBody(response[r].status, body), upd)
  /\ UNCHANGED <<reqs, GEMINI_API_KEY, req, file, outbound, retryVars>>

\* The file store before the requests: f1 as drawn, f2 a file of user u2.
InitFiles(owner, transcript, topic) ==
  [f \in FileIds |->
     IF f = "f1"
     THEN [id |-> "f1", userId |-> owner, transcript |-> transcript,
           summary |-> Str(<<"old summary">>), topic |-> topic]
     ELSE [id |-> "f2", userId |-> "u2", transcript |-> Str(<<[c |-> "a", n |-> 1]>>),
           summary |-> Null, topic |-> Null]]

InitHandler(keys, owners, transcripts, topics) ==
  /\ GEMINI_API_KEY \in keys
  /\ \E owner \in owners, transcript \in transcripts, topic \in topics :
       files = InitFiles(owner, transcript, topic)
  /\ pc = [r \in ReqIds |-> "new"]
  /\ req = [r \in ReqIds |-> NoRequest]
  /\ file = [r \in ReqIds |-> NoFile]
  /\ response = [r \in ReqIds |-> NoResponse]
  /\ gs = [r \in ReqIds |-> NotCalled]
  /\ resp = [r \in ReqIds |-> <<>>]
  /\ outbound = <<>>
  /\ dbWrites = <<>>

RetryIdle ==
  /\ rpc = "idle"
  /\ rtext = <<>>
  /\ rresponse = NoResponse
  /\ rresult = NotCalled
  /\ rcalls = 0
  /\ rfailures = {}

\* One request, a file with one of the basic transcripts.
Init ==
  /\ reqs = {"r1"}
  /\ InitHandler(ApiKeys, {"u1", "u2"}, BasicTranscripts, Topics)
  /\ RetryIdle

Next == \E r \in ReqIds : HandlerStart(r) \/ FetchResolve(r) \/ BodyResolve(r, Bodies)

Spec == Init /\ [][Next]_vars
\* One request, a file with a transcript of up to MaxRuns runs, short or
\* around the truncation limit; a few upstream bodies.
InitTrunc ==
  /\ reqs = {"r1"}
  /\ InitHandler(ApiKeys, {"u1"}, LongTranscripts, {Null})
  /\ RetryIdle

NextTrunc ==
  \E r \in ReqIds : HandlerStart(r) \/ FetchResolve(r) \/ BodyResolve(r, FewBodies)

SpecTrunc == InitTrunc /\ [][NextTrunc]_vars

\* Two requests, which may overlap, on the store of one file of user u1 with
\* a transcript; one upstream body for each path.
InitConc ==
  /\ reqs = ReqIds
  /\ InitHandler({Str(<<"key">>)}, {"u1"}, {Str(<<[c |-> "a", n |-> 1]>>)}, Topics)
  /\ RetryIdle

NextConc ==
  \E r \in ReqIds : HandlerStart(r) \/ FetchResolve(r) \/ BodyResolve(r, PathBodies)

SpecConc == InitConc /\ [][NextConc]_vars

\* One request, one upstream body for each path; every fetch call settles and
\* every body that is awaited is read or fails.
NextLive ==
  \E r \in ReqIds : HandlerStart(r) \/ FetchResolve(r) \/ BodyResolve(r, PathBodies)

SpecLive ==
  /\ Init
  /\ [][NextLive]_vars
  /\ \A r \in ReqIds : WF_vars(FetchResolve(r)) /\ WF_vars(BodyResolve(r, PathBodies))

\* -------------------------------------------------- generateSummaryRetry

RetrySentinel == "AI summary generation failed after retry"
RetrySentinelManual ==
  "AI summary generation failed after retry - please regenerate manually."

\* The try block of generateSummaryRetry after fetch resolved with `status`
\* and the body was read.
RetryTry(status, body) ==
  IF ~ResponseOk(status)
  THEN Throw(<<"Gemini API retry error: ", ToString(status)>>)
  ELSE IF ~body.json THEN Throw(<<"SyntaxError: Unexpected token">>)
  ELSE LET m == summaryMatch(body.text)
           summary == IF m.matched THEN Trim(m.group) ELSE <<RetrySentinel>>
       IN IF SummaryInvalid(summary)
          THEN Return(<<RetrySentinelManual>>)
          ELSE Return(summary)

\* As RetryCatch, the error thrown on as generateSummary does.
RetryCatchRethrow(result) == result

\* The catch block: whatever was thrown, the sentinel is returned.
RetryCatch(result) == IF result.threw THEN Return(<<RetrySentinel>>) ELSE result

\* A call that did not extract a summary of at least MinSummaryLength
\* characters: the fetch failed, the status was no success, the body was no
\* JSON, the text had no SUMMARY: section or a section too short.
RetryFailed(fetched, status, body) ==
  \/ ~fetched
  \/ ~ResponseOk(status)
  \/ ~body.json
  \/ ~summaryMatch(body.text).matched
  \/ SumLen(Trim(summaryMatch(body.text).group)) < MinSummaryLength

\* The call returns or throws: recorded, with the string of a failed call.
RetryFinish(result, failed) ==
  /\ rresult' = Outcome(result)
  /\ rfailures' = IF failed /\ ~result.threw THEN rfailures \cup {result.value} ELSE rfailures
  /\ rpc' = "done"

\* generateSummaryRetry(text) is called: the prompt is built from the whole
\* text and fetch is called.
RetryCall ==
  /\ rpc \in {"new", "done"}
  /\ rcalls < MaxRetryCalls
  /\ rcalls' = rcalls + 1
  /\ rresponse' = NoResponse
  /\ rresult' = Pending
  /\ outbound' = Append(outbound,
       [req |-> "retry", fn |-> "generateSummaryRetry", prompt |-> summaryPrompt(rtext)])
  /\ rpc' = "awaitFetch"
  /\ UNCHANGED <<handlerVars, rtext, rfailures>>

RetryFetchResolve ==
  /\ rpc = "awaitFetch"
  /\ \/ /\ rresponse' = [rresponse EXCEPT !.state = "failed"]
        /\ RetryFinish(RetryCatch(Throw(<<"fetch failed">>)), TRUE)
     \/ \E status \in Statuses :
          /\ rresponse' = [rresponse EXCEPT !.state = "headers", !.status = status]
          /\ rpc' = "awaitBody"
          /\ UNCHANGED <<rresult, rfailures>>
  /\ UNCHANGED <<handlerVars, outbound, rtext, rcalls>>

RetryBodyResolve ==
  /\ rpc = "awaitBody"
  /\ \E body \in Bodies :
       /\ rresponse' = [rresponse EXCEPT !.state = "body", !.body = body]
       /\ RetryFinish(RetryCatch(RetryTry(rresponse.status, body)),
                      RetryFailed(TRUE, rresponse.status, body))
  /\ UNCHANGED <<handlerVars, outbound, rtext, rcalls>>

\* No request; generateSummaryRetry is called on a text, up to MaxRetryCalls
\* times.
InitRetry ==
  /\ reqs = {}
  /\ InitHandler({Str(<<"key">>)}, {"u1"}, {Null}, {Null})
  /\ rpc = "new"
  /\ rtext \in {t.v : t \in {x \in BasicTranscripts : x.t = "string"}}
  /\ rresponse = NoResponse
  /\ rresult = NotCalled
  /\ rcalls = 0
  /\ rfailures = {}

NextRetry == RetryCall \/ RetryFetchResolve \/ RetryBodyResolve

SpecRetry == InitRetry /\ [][NextRetry]_vars
\* ------------------------------------------------------------ the claims

\* The response a finished request got (the first one sent).
Answer(r) == resp[r][1]

\* The update calls and the fetch calls a request made.
WritesBy(r) == {i \in 1..Len(dbWrites) : dbWrites[i].req = r}
CallsBy(r) == {i \in 1..Len(outbound) : outbound[i].req = r}

\* The request got as far as reading the body of a success reply carrying a
\* non-empty generated text.
GotText(r) ==
  /\ response[r].state = "body"
  /\ ResponseOk(response[r].status)
  /\ response[r].body.json
  /\ response[r].body.text # <<>>

HasToken(text, tok) == \E i \in 1..Len(text) : text[i] = tok

\* C1: a success reply whose non-empty generated text has no SUMMARY: marker
\* makes generateSummary throw 'Generated summary is too short or invalid';
\* nothing is stored and the request is not answered 200.
C1_NoMarkerFails ==
  \A r \in ReqIds :
    (GotText(r) /\ ~HasToken(response[r].body.text, SUMMARY))
      => /\ gs[r].state = "threw"
         /\ gs[r].message = <<"Generated summary is too short or invalid">>
         /\ WritesBy(r) = {}
         /\ \A i \in 1..Len(resp[r]) : resp[r][i].status # 200

\* The request passed every check of the handler as the owner of its file.
ValidRequest(r) ==
  /\ req[r].method = "POST"
  /\ req[r].fault = "none"
  /\ verifyToken(req[r].token).email = "e1"
  /\ req[r].body.defined
  /\ req[r].body.fileId \in FileIds
  /\ file[r].id = req[r].body.fileId
  /\ file[r].userId = "u1"
  /\ Truthy(file[r].transcript)
  /\ Truthy(GEMINI_API_KEY)

\* The generated text is SUMMARY: S followed by a TOPICS: section starting at
\* token k.
SummaryThenTopics(text, k) ==
  /\ Len(text) >= 2
  /\ text[1] = SUMMARY
  /\ k \in 2..Len(text)
  /\ text[k] = TOPICS

\* The request ended in 200 with summary s, stored in its file.
Succeeded(r, s) ==
  /\ Len(resp[r]) = 1
  /\ Answer(r).status = 200
  /\ Answer(r).body.success
  /\ Answer(r).body.summary = s
  /\ files[file[r].id].summary = Str(s)

\* The case of C2: a valid request, a success reply, no failing store update.
C2_Case(r) ==
  /\ pc[r] = "done"
  /\ ValidRequest(r)
  /\ GotText(r)
  /\ \A i \in WritesBy(r) : dbWrites[i].outcome = "updated"

\* C2 as stated: for every S of at least 20 characters after trimming, a
\* valid request whose upstream reply is SUMMARY: S followed by TOPICS: ends
\* in 200 with summary S, stored in the file.
C2_EverySummary ==
  \A r \in ReqIds :
    \A k \in 1..Len(response[r].body.text) :
      LET text == response[r].body.text
          S == Trim(SubSeq(text, 2, k - 1))
      IN (C2_Case(r) /\ SummaryThenTopics(text, k) /\ SumLen(S) >= MinSummaryLength)
           => Succeeded(r, S)

\* C2 (amended): the same for every such S that contains neither 'failed' nor
\* 'TOPICS:'.
C2_SummaryStored ==
  \A r \in ReqIds :
    \A k \in 1..Len(response[r].body.text) :
      LET text == response[r].body.text
          S == Trim(SubSeq(text, 2, k - 1))
      IN (/\ C2_Case(r)
          /\ SummaryThenTopics(text, k)
          /\ SumLen(S) >= MinSummaryLength
          /\ ~IncludesFailed(S)
          /\ ~HasToken(S, TOPICS))
           => Succeeded(r, S)

C2_Witness ==
  /\ C2_Case("r1")
  /\ response["r1"].body.text = <<SUMMARY, WS, Word20, TOPICS>>
  /\ Succeeded("r1", <<Word20>>)

\* The request was made with a valid token of user u1, named an existing
\* file and no collaborator threw.
AuthenticatedFor(r, fileId) ==
  /\ pc[r] = "done"
  /\ req[r].method = "POST"
  /\ req[r].fault = "none"
  /\ req[r].token = "tok-e1"
  /\ req[r].body.defined
  /\ req[r].body.fileId = fileId
  /\ fileId \in DOMAIN files

\* The request made no fetch call and no store update.
NoSideEffect(r) == CallsBy(r) = {} /\ WritesBy(r) = {}

\* C3: a request naming an existing file of another user is answered 403,
\* with no store update and no outbound call, whatever the transcript and the
\* credential are.
C3_NotOwner403 ==
  \A r \in ReqIds :
    \A f \in FileIds :
      (AuthenticatedFor(r, f) /\ files[f].userId # "u1")
        => /\ Len(resp[r]) = 1
           /\ Answer(r).status = 403
           /\ NoSideEffect(r)

C3_Witness ==
  /\ AuthenticatedFor("r1", "f1")
  /\ files["f1"].userId = "u2"
  /\ Truthy(files["f1"].transcript)
  /\ Truthy(GEMINI_API_KEY)
  /\ Answer("r1").status = 403

\* C4: a request that passes the method, auth, fileId, existence and
\* ownership checks on a file whose transcript is null, undefined or '' is
\* answered 400, with no outbound call and no store update.
C4_NoTranscript400 ==
  \A r \in ReqIds :
    \A f \in FileIds :
      (/\ AuthenticatedFor(r, f)
       /\ files[f].userId = "u1"
       /\ files[f].transcript \in {Null, Undefined, Str(<<>>)})
        => /\ Len(resp[r]) = 1
           /\ Answer(r).status = 400
           /\ Answer(r).body.error = "File has no transcript to summarize"
           /\ NoSideEffect(r)

C4_Witness ==
  /\ AuthenticatedFor("r1", "f1")
  /\ files["f1"].userId = "u1"
  /\ files["f1"].transcript = Str(<<>>)
  /\ Truthy(GEMINI_API_KEY)
  /\ Answer("r1").status = 400
\* The preconditions of the handler in the order C5 gives them, each with
\* the status and the error of its rejection, for a request whose
\* collaborators do not throw.
C5_Preconditions(r) ==
  LET q == req[r]
      known == q.body.fileId \in FileIds
      f == IF known THEN files[q.body.fileId] ELSE NoFile
  IN << [failed |-> q.method # "POST", status |-> 405, error |-> "Method not allowed"],
        [failed |-> q.token \in {"none", "expired"}, status |-> 401, error |-> "Unauthorized"],
        [failed |-> q.token = "tok-e3", status |-> 401, error |-> "User not found"],
        [failed |-> q.body.fileId = "", status |-> 400, error |-> "File ID is required"],
        [failed |-> ~known, status |-> 404, error |-> "File not found"],
        [failed |-> f.userId # "u1", status |-> 403,
         error |-> "Not authorized to update this file"],
        [failed |-> f.transcript \in {Null, Undefined, Str(<<>>)}, status |-> 400,
         error |-> "File has no transcript to summarize"],
        [failed |-> GEMINI_API_KEY \in {Undefined, Str(<<>>)}, status |-> 500,
         error |-> "AI service not configured. Please set up GEMINI_API_KEY."] >>

NoCollaboratorThrows(r) ==
  req[r].fault = "none" /\ req[r].token # "malformed" /\ req[r].body.defined

\* C5: a request that fails a precondition gets the response of the first
\* failed one, in the order method, token, user, fileId, file found, owner,
\* transcript, credential; no outbound call and no store update happens.
C5_FirstFailedCheck ==
  \A r \in ReqIds :
    (pc[r] = "done" /\ NoCollaboratorThrows(r))
      => LET checks == C5_Preconditions(r)
         IN \A i \in 1..Len(checks) :
              (checks[i].failed /\ \A j \in 1..(i - 1) : ~checks[j].failed)
                => /\ Len(resp[r]) = 1
                   /\ Answer(r).status = checks[i].status
                   /\ Answer(r).body.error = checks[i].error
                   /\ NoSideEffect(r)

\* A request that fails the owner, the transcript and the credential check at
\* once and is answered by the first of them.
C5_Witness ==
  /\ AuthenticatedFor("r1", "f1")
  /\ files["f1"].userId = "u2"
  /\ files["f1"].transcript = Null
  /\ GEMINI_API_KEY = Undefined
  /\ Answer("r1").status = 403

\* generateSummary threw the 'too short or invalid' error / returned s.
ThrewTooShort(r) ==
  gs[r].state = "threw" /\ gs[r].message = <<"Generated summary is too short or invalid">>
Returned(r, s) == gs[r].state = "returned" /\ gs[r].value = s

C7_Message(status) ==
  CASE status = 401 -> <<"Invalid API key - please check GEMINI_API_KEY configuration">>
    [] status = 403 -> <<"API access forbidden - please check API key permissions">>
    [] status = 429 -> <<"API rate limit exceeded - please try again later">>
    [] OTHER -> <<"Gemini API error: ", ToString(status), " - ", "errorText">>

\* C7: on a non-success status generateSummary throws the error of the
\* status (401, 403, 429, or the generic one carrying the status), and the
\* handler answers 500 'Failed to regenerate summary' with that message in
\* details and updates nothing.
C7_StatusErrors ==
  \A r \in ReqIds :
    (response[r].state = "body" /\ response[r].status \notin 200..299)
      => /\ gs[r].state = "threw"
         /\ gs[r].message = C7_Message(response[r].status)
         /\ Len(resp[r]) = 1
         /\ Answer(r).status = 500
         /\ Answer(r).body.error = "Failed to regenerate summary"
         /\ "details" \in Answer(r).body.keys
         /\ Answer(r).body.details = gs[r].message
         /\ WritesBy(r) = {}

C7_Witness ==
  /\ response["r1"].state = "body"
  /\ response["r1"].status = 403
  /\ Answer("r1").body.details = <<"API access forbidden - please check API key permissions">>

\* p is the text of the first characters of t, both run-length encoded with
\* neighbouring runs of different characters.
IsPrefixOf(p, t) ==
  /\ Len(p) <= Len(t)
  /\ \A i \in 1..(Len(p) - 1) : p[i] = t[i]
  /\ p # <<>> => (p[Len(p)].c = t[Len(p)].c /\ p[Len(p)].n <= t[Len(p)].n)

\* C8: the prompt of generateSummary carries exactly the first 32000
\* characters of a transcript longer than that, and the whole transcript
\* otherwise.
C8_PromptTruncated ==
  \A i \in 1..Len(outbound) :
    LET call == outbound[i]
        t == file[call.req].transcript.v
    IN call.fn = "generateSummary" =>
         /\ call.prompt.head = PromptHead
         /\ call.prompt.tail = PromptTail
         /\ IF RunsLen(t) > 32000
            THEN RunsLen(call.prompt.text) = 32000 /\ IsPrefixOf(call.prompt.text, t)
            ELSE call.prompt.text = t

\* A transcript of 63999 characters, cut inside its second run.
C8_Witness ==
  /\ Len(outbound) = 1
  /\ file["r1"].transcript.v =
       <<[c |-> "a", n |-> 31999], [c |-> WS, n |-> 32000]>>
  /\ outbound[1].prompt.text = <<[c |-> "a", n |-> 31999], [c |-> WS, n |-> 1]>>

\* C9 as stated: generateSummaryRetry never throws and its failed calls all
\* return one and the same string.
C9_OneSentinel ==
  /\ rresult.state # "threw"
  /\ Cardinality(rfailures) <= 1

\* C9 (amended): generateSummaryRetry never throws; a failed call returns
\* 'AI summary generation failed after retry' (no success status, the call
\* or the body failing, no SUMMARY: section) or that sentence followed by
\* ' - please regenerate manually.' (an extracted summary under 20
\* characters); any other string is returned only as the extracted summary
\* of at least 20 characters.
C9_TwoSentinels ==
  rpc = "done" =>
    /\ rresult.state = "returned"
    /\ IF rresponse.state = "failed" \/ ~ResponseOk(rresponse.status)
          \/ ~rresponse.body.json \/ ~summaryMatch(rresponse.body.text).matched
       THEN rresult.value = <<RetrySentinel>>
       ELSE LET t == Trim(summaryMatch(rresponse.body.text).group)
            IN IF SumLen(t) < 20
               THEN rresult.value = <<RetrySentinelManual>>
               ELSE rresult.value = t

\* Both sentinels have been returned, the last call failing on its status.
C9_Witness ==
  /\ rpc = "done"
  /\ rfailures = {<<RetrySentinel>>, <<RetrySentinelManual>>}
  /\ rresponse.state = "body"
  /\ rresponse.status = 500
  /\ rresult.value = <<RetrySentinel>>

\* C10: when generation succeeded and filesDB.update returns a falsy value
\* the handler answers 500 'Failed to save updated summary'; a 200 response
\* is sent only after filesDB.update was called with the new summary and
\* returned a record.
C10_PersistenceFailure ==
  \A r \in ReqIds :
    pc[r] = "done" =>
      /\ \A i \in WritesBy(r) :
           dbWrites[i].outcome = "null"
             => /\ Len(resp[r]) = 1
                /\ Answer(r).status = 500
                /\ Answer(r).body.error = "Failed to save updated summary"
      /\ \A j \in 1..Len(resp[r]) :
           resp[r][j].status = 200
             => \E i \in WritesBy(r) :
                  /\ dbWrites[i].outcome = "updated"
                  /\ dbWrites[i].patch.summary = Str(resp[r][j].body.summary)

C10_Witness ==
  /\ pc["r1"] = "done"
  /\ gs["r1"].state = "returned"
  /\ Len(dbWrites) = 1
  /\ dbWrites[1].outcome = "null"
  /\ Answer("r1").status = 500
\* The fields of a file other than summary and topic.
KeptFields(f) == [id |-> f.id, userId |-> f.userId, transcript |-> f.transcript]

\* C11: every store update of the handler is made on the file looked up and
\* patches exactly summary and topic, the topic being the one read at the
\* lookup when it is set (a non-empty string) and 'General' otherwise; no
\* step changes a topic that is set, nor the id, userId or transcript of a
\* file.
C11_PatchSummaryAndTopic ==
  [][ /\ \A i \in 1..Len(dbWrites') :
           LET w == dbWrites'[i]
               f == file'[w.req]
           IN /\ w.id = f.id
              /\ DOMAIN w.patch = {"summary", "topic"}
              /\ w.patch.topic =
                   IF f.topic.t = "string" /\ f.topic.v # <<>>
                   THEN f.topic
                   ELSE Str(<<"General">>)
      /\ \A id \in FileIds :
           /\ KeptFields(files'[id]) = KeptFields(files[id])
           /\ (files[id].topic.t = "string" /\ files[id].topic.v # <<>>)
                => files'[id].topic = files[id].topic
           /\ files'[id] # files[id]
                => \E i \in 1..Len(dbWrites') :
                     /\ dbWrites'[i].id = id
                     /\ dbWrites'[i].outcome = "updated"
                     /\ files'[id].summary = dbWrites'[i].patch.summary
                     /\ files'[id].topic = dbWrites'[i].patch.topic ]_vars

\* A successful regeneration on a file whose topic was set.
C11_Witness ==
  /\ pc["r1"] = "done"
  /\ Answer("r1").status = 200
  /\ file["r1"].topic = Str(<<"Meeting">>)
  /\ files["f1"].topic = Str(<<"Meeting">>)
  /\ files["f1"].summary # file["r1"].summary
  /\ dbWrites[1].patch.topic = Str(<<"Meeting">>)
\* C12: an execution of the handler makes at most one fetch call and at most
\* one store update; the update comes only after the fetch call's reply was
\* read and generateSummary returned a summary; a 200 response goes with
\* exactly one of each; the call is never repeated and generateSummaryRetry
\* is never called.
C12_OneCallOneWrite ==
  \A r \in ReqIds :
    /\ Cardinality(CallsBy(r)) <= 1
    /\ Cardinality(WritesBy(r)) <= 1
    /\ \A i \in CallsBy(r) : outbound[i].fn = "generateSummary"
    /\ WritesBy(r) # {}
         => /\ Cardinality(CallsBy(r)) = 1
            /\ response[r].state = "body"
            /\ gs[r].state = "returned"
            /\ SumLen(gs[r].value) >= 20
    /\ \A j \in 1..Len(resp[r]) :
         resp[r][j].status = 200
           => Cardinality(CallsBy(r)) = 1 /\ Cardinality(WritesBy(r)) = 1
    /\ pc[r] \in {"awaitFetch", "awaitBody"}
         => Cardinality(CallsBy(r)) = 1 /\ WritesBy(r) = {}

\* A request answered 200 after its one call and its one update.
C12_Witness ==
  /\ pc["r1"] = "done"
  /\ Answer("r1").status = 200
  /\ Len(outbound) = 1
  /\ Len(dbWrites) = 1
\* The transcript is null, undefined, '' or white space only.
EmptyOrBlank(transcript) ==
  transcript.t # "string" \/ \A i \in 1..Len(transcript.v) : transcript.v[i].c = WS

\* C13: a request for a file whose transcript is empty or white space only
\* ends with an error response, without any fetch call and without a store
\* update, the stored summary left as it was; when generateSummary is
\* reached with such a transcript it throws 'No transcript text provided'
\* before calling fetch.
C13_BlankTranscriptRejected ==
  \A r \in ReqIds :
    (/\ pc[r] # "new"
     /\ req[r].body.fileId \in FileIds
     /\ EmptyOrBlank(files[req[r].body.fileId].transcript))
      => /\ pc[r] = "done"
         /\ Len(resp[r]) = 1
         /\ Answer(r).status >= 400
         /\ NoSideEffect(r)
         /\ files[req[r].body.fileId].summary = Str(<<"old summary">>)
         /\ gs[r].state \in {"none", "threw"}
         /\ gs[r].state = "threw" => gs[r].message = <<"No transcript text provided">>
         /\ (AuthenticatedFor(r, req[r].body.fileId)
             /\ files[req[r].body.fileId].userId = "u1"
             /\ files[req[r].body.fileId].transcript.t = "string"
             /\ files[req[r].body.fileId].transcript.v # <<>>
             /\ Truthy(GEMINI_API_KEY))
              => gs[r].state = "threw"

\* A white-space transcript passed the handler's checks and was rejected by
\* generateSummary.
C13_Witness ==
  /\ pc["r1"] = "done"
  /\ file["r1"].transcript = Str(<<[c |-> WS, n |-> 1]>>)
  /\ gs["r1"].state = "threw"
  /\ Answer("r1").status = 500
  /\ outbound = <<>>
\* The collaborator or access that throws in the request, reached because
\* every check before it passed; "none" when nothing throws.
C14_Thrower(r) ==
  LET q == req[r]
      verified == q.token \in {"tok-e1", "tok-e3"}
      found == q.token = "tok-e1"
  IN IF q.method # "POST" THEN "none"
     ELSE IF q.fault = "getTokenFromRequest" THEN "getTokenFromRequest"
     ELSE IF q.token = "malformed" THEN "verifyToken"
     ELSE IF verified /\ q.fault = "findByEmail" THEN "findByEmail"
     ELSE IF found /\ ~q.body.defined THEN "req.body"
     ELSE IF found /\ q.body.fileId # "" /\ q.fault = "findById" THEN "findById"
     ELSE "none"

\* C14: an exception of getTokenFromRequest, verifyToken, findByEmail, the
\* access to req.body or findById is answered 500 'Internal server error',
\* without details, without fetch call and without store update.
C14_InternalServerError ==
  \A r \in ReqIds :
    (pc[r] # "new" /\ C14_Thrower(r) # "none")
      => /\ pc[r] = "done"
         /\ Len(resp[r]) = 1
         /\ Answer(r).status = 500
         /\ Answer(r).body.error = "Internal server error"
         /\ Answer(r).body.keys = {"error"}
         /\ NoSideEffect(r)

\* findById throws for an authenticated request that names a file.
C14_Witness ==
  /\ pc["r1"] = "done"
  /\ C14_Thrower("r1") = "findById"
  /\ req["r1"].body.fileId = "f1"
  /\ Answer("r1").body.error = "Internal server error"
\* The successful updates of file id, by their place in the order of the
\* updates.
UpdatesOf(id) ==
  {i \in 1..Len(dbWrites) : dbWrites[i].id = id /\ dbWrites[i].outcome = "updated"}

\* C15: with overlapping requests the summary stored is the one of the
\* update that ran last, whichever request started or called fetch first;
\* each update writes the summary its own request generated and its request
\* is answered 200 whatever the other request wrote in between.
C15_LastWriteWins ==
  /\ \A id \in FileIds :
       UpdatesOf(id) # {}
         => LET last == CHOOSE i \in UpdatesOf(id) : \A j \in UpdatesOf(id) : j <= i
            IN files[id].summary = dbWrites[last].patch.summary
  /\ \A i \in 1..Len(dbWrites) :
       LET r == dbWrites[i].req
       IN /\ dbWrites[i].patch.summary = Str(gs[r].value)
          /\ dbWrites[i].outcome = "updated"
               => /\ Len(resp[r]) = 1
                  /\ Answer(r).status = 200
                  /\ Answer(r).body.summary = gs[r].value

\* Both requests read the file before either wrote; r1 called fetch first
\* and wrote last, and its summary, not r2's, is the one stored.
C15_Witness ==
  /\ pc = [r \in ReqIds |-> "done"]
  /\ file["r1"].summary = Str(<<"old summary">>)
  /\ file["r2"].summary = Str(<<"old summary">>)
  /\ Len(outbound) = 2 /\ outbound[1].req = "r1"
  /\ Len(dbWrites) = 2 /\ dbWrites[1].req = "r2" /\ dbWrites[2].req = "r1"
  /\ Answer("r1").status = 200 /\ Answer("r2").status = 200
  /\ Answer("r1").body.summary # Answer("r2").body.summary
  /\ files["f1"].summary = Str(Answer("r1").body.summary)
\* C16: a summary containing 'failed' is never stored and never returned
\* with 200: when generateSummary returns one, the handler answers 500 'AI
\* summary generation failed. Please try again.' and makes no store update.
C16_FailedNeverStored ==
  /\ \A r \in ReqIds :
       /\ (gs[r].state = "returned" /\ HasToken(gs[r].value, "failed"))
            => /\ Len(resp[r]) = 1
               /\ Answer(r).status = 500
               /\ Answer(r).body.error = "AI summary generation failed. Please try again."
               /\ WritesBy(r) = {}
       /\ \A j \in 1..Len(resp[r]) :
            resp[r][j].status = 200 => ~HasToken(resp[r][j].body.summary, "failed")
  /\ \A i \in 1..Len(dbWrites) : ~HasToken(dbWrites[i].patch.summary.v, "failed")
  /\ \A id \in FileIds :
       files[id].summary.t = "string" => ~HasToken(files[id].summary.v, "failed")

\* A well-formed summary of 26 characters containing 'failed' is refused.
C16_Witness ==
  /\ pc["r1"] = "done"
  /\ response["r1"].body.text = <<SUMMARY, WS, Word20, "failed">>
  /\ gs["r1"] = [state |-> "returned", value |-> <<Word20, "failed">>, message |-> <<>>]
  /\ Answer("r1").status = 500
  /\ dbWrites = <<>>
\* C17: an execution of the handler has sent no response while it runs and
\* exactly one when it has ended, on every path; once its outbound call
\* settles, an execution that awaits it ends with its response.
C17_ExactlyOneResponse ==
  /\ [](\A r \in ReqIds : Len(resp[r]) = IF pc[r] = "done" THEN 1 ELSE 0)
  /\ \A r \in ReqIds :
       (pc[r] \in {"awaitFetch", "awaitBody"}) ~> (pc[r] = "done" /\ Len(resp[r]) = 1)

\* The request ended with its one response after its outbound call settled.
C17_Witness ==
  /\ pc["r1"] = "done"
  /\ response["r1"].state = "body"
  /\ Len(resp["r1"]) = 1
====
